---------------------------- MODULE Spec2Model ----------------------------
(***************************************************************************)
(* A model of the S3 image resizer of src/s3_resize_images.py.             *)
(*                                                                         *)
(* Several invocations of lambda_handler run concurrently against one      *)
(* bucket; they share nothing but the bucket.  Every store call            *)
(* (head_object, put_object, get_object_tagging, download_file,            *)
(* upload_file, delete_object) is one atomic step of the invocation that   *)
(* makes it, and each may fail with a transient error.  Object keys are    *)
(* sequences of one-character strings, so that is_image_file and           *)
(* generate_resized_key are computed on the characters as the code         *)
(* computes them.                                                          *)
(***************************************************************************)
EXTENDS Integers, Sequences, FiniteSets, TLC

VARIABLES
    prefix,      \* the configured RESIZED_PREFIX of the deployment
    store,       \* the bucket: key -> object (or NoObject)
    pc,          \* per invocation: the place in lambda_handler / process_s3_record
    rec,         \* per invocation: the record being processed
    recs,        \* per invocation: the records of the event handed out so far
    results,     \* per invocation: the handler's results list
    response,    \* per invocation: what lambda_handler returned last
    exc,         \* per invocation: the exception being propagated
    pre,         \* per invocation: what the bucket held when the item started
    log,         \* per invocation: the store and codec calls of the current item
    published,   \* per output key: the number of completed upload_file calls
    fresh,       \* the bucket held neither output nor lock object at the start
    mayfail,     \* the calls that may fail with a transient error
    faulty,      \* some call has failed so far
    kin,         \* key derivation: the input key
    kout         \* key derivation: what the key functions returned for kin

vars == <<prefix, store, pc, rec, recs, results, response, exc, pre, log,
          published, fresh, mayfail, faulty, kin, kout>>

-----------------------------------------------------------------------------
(* Bounds of the model *)

\* concurrent invocations of lambda_handler
Workers == 2
\* records of one event when invocations run concurrently
MaxItems == 1
\* records of one event under the atomic-acquisition assumption
AtomicItems == 2
\* records of one event when one invocation runs alone
MaxRecords == 3
\* the publish counter saturates here
MaxCount == 2

Invocations == 1..Workers

-----------------------------------------------------------------------------
(* Strings *)

S_resized_dir == <<"r", "e", "s", "i", "z", "e", "d", "/">>
S_test_images == <<"t", "e", "s", "t", "-", "i", "m", "a", "g", "e", "s", "/">>
S_other == <<"o", "t", "h", "e", "r", "/">>
S_test_image == <<"t", "e", "s", "t", "-", "i", "m", "a", "g", "e">>
S_notes == <<"n", "o", "t", "e", "s">>
S_jpg == <<".", "j", "p", "g">>
S_JPG == <<".", "J", "P", "G">>
S_Jpeg == <<".", "J", "p", "e", "g">>
S_txt == <<".", "t", "x", "t">>
S_resized_suffix == <<"_", "r", "e", "s", "i", "z", "e", "d">>
S_lock_suffix == <<".", "p", "r", "o", "c", "e", "s", "s", "i", "n", "g", "_",
                   "l", "o", "c", "k">>
Unknown == <<"u", "n", "k", "n", "o", "w", "n">>

UpperCase == <<"A", "B", "C", "D", "E", "F", "G", "H", "I", "J", "K", "L", "M",
               "N", "O", "P", "Q", "R", "S", "T", "U", "V", "W", "X", "Y", "Z">>
LowerCase == <<"a", "b", "c", "d", "e", "f", "g", "h", "i", "j", "k", "l", "m",
               "n", "o", "p", "q", "r", "s", "t", "u", "v", "w", "x", "y", "z">>

\* str.lower() on one character
LowerChar(c) ==
    IF \E n \in 1..26 : UpperCase[n] = c
    THEN LowerCase[CHOOSE n \in 1..26 : UpperCase[n] = c]
    ELSE c

\* str.lower()
Lower(s) == [n \in 1..Len(s) |-> LowerChar(s[n])]

\* str.startswith(p)
StartsWith(s, p) == Len(p) <= Len(s) /\ SubSeq(s, 1, Len(p)) = p

\* str.rfind(c) + 1: the last position of c in s, 0 when there is none
RFind(s, c) ==
    IF \E n \in 1..Len(s) : s[n] = c
    THEN CHOOSE n \in 1..Len(s) : s[n] = c /\ \A m \in (n+1)..Len(s) : s[m] # c
    ELSE 0

\* os.path.basename(p): what follows the last "/"
Basename(p) == SubSeq(p, RFind(p, "/") + 1, Len(p))

\* os.path.splitext(p): the extension starts at the last "." after the last
\* "/", unless only dots precede it in the file name
Splitext(p) ==
    LET sepIndex == RFind(p, "/")
        dotIndex == RFind(p, ".")
    IN  IF /\ dotIndex > sepIndex
           /\ \E n \in (sepIndex + 1)..(dotIndex - 1) : p[n] # "."
        THEN <<SubSeq(p, 1, dotIndex - 1), SubSeq(p, dotIndex, Len(p))>>
        ELSE <<p, <<>> >>

-----------------------------------------------------------------------------
(* Configuration *)

\* RESIZED_PREFIX as shipped
RESIZED_PREFIX == <<>>
\* the output prefix the test script expects the deployment to use
TEST_PREFIX == S_resized_dir
\* the deployments modelled
Prefixes == {RESIZED_PREFIX, TEST_PREFIX}

SUPPORTED_FORMATS ==
    { S_jpg,
      <<".", "j", "p", "e", "g">>,
      <<".", "p", "n", "g">>,
      <<".", "b", "m", "p">>,
      <<".", "g", "i", "f">>,
      <<".", "t", "i", "f", "f">>,
      <<".", "w", "e", "b", "p">> }

-----------------------------------------------------------------------------
(* Key derivation *)

\* is_image_file without the test on the output prefix
is_image_file_noprefix(p, key) ==
    IF key = <<>> THEN FALSE
    ELSE Splitext(Lower(key))[2] \in SUPPORTED_FORMATS

is_image_file(p, key) ==
    IF key = <<>> THEN FALSE
    ELSE IF StartsWith(key, p) THEN FALSE
    ELSE Splitext(Lower(key))[2] \in SUPPORTED_FORMATS

\* generate_resized_key that returns the key it was given
generate_resized_key_same(p, original_key) == original_key

generate_resized_key(p, original_key) ==
    LET filename == Basename(original_key)
        parts == Splitext(filename)
    IN  p \o parts[1] \o S_resized_suffix \o parts[2]

lock_key_of(resized_key) == resized_key \o S_lock_suffix

-----------------------------------------------------------------------------
(* The bucket *)

\* an object is its kind, the value of its 'processed' tag ("" when it has
\* none) and the invocation that wrote it
NoObject == [kind |-> "none", processed |-> "", owner |-> 0]
\* an uploaded original
Source == [kind |-> "source", processed |-> "", owner |-> 0]
\* the lock object put by invocation i (0: put before the behaviour starts)
LockObject(i) == [kind |-> "lock", processed |-> "", owner |-> i]
\* the output object uploaded by invocation i, tagged processed=<value>
Resized(i, value) == [kind |-> "resized", processed |-> value, owner |-> i]

\* the keys of the S3 event records of the model
K1 == S_test_images \o S_test_image \o S_jpg
K2 == S_other \o S_test_image \o S_jpg
KNotes == S_notes \o S_txt
InputKeys == {K1, K2, KNotes}

OutputKeys == {generate_resized_key(p, k) : p \in Prefixes, k \in InputKeys}
LockKeys == {lock_key_of(k) : k \in OutputKeys}
StoreKeys == InputKeys \cup OutputKeys \cup LockKeys

\* S3 event records: a well-formed one, one without its s3 field, and one
\* that is not a mapping at all
MappingRecord(k) == [shape |-> "mapping", key |-> k]
NoFieldsRecord == [shape |-> "nofields", key |-> <<>>]
NotMappingRecord == [shape |-> "notmapping", key |-> <<>>]
Records == {MappingRecord(K1), MappingRecord(KNotes), NoFieldsRecord,
            NotMappingRecord}
\* the records of concurrent deliveries: the same input
SameInput == {MappingRecord(K1)}

NoRecord == [shape |-> "none", key |-> <<>>]
NoPre == [out |-> NoObject, lock |-> NoObject]
NoResponse == [statusCode |-> 0, results |-> <<>>]
NoResult == [applied |-> FALSE, eligible |-> FALSE, resized |-> <<>>,
             lock |-> <<>>]

-----------------------------------------------------------------------------
(* Results of process_s3_record and of the handler *)

SkipResult(reason, key) ==
    [success |-> TRUE, skipped |-> TRUE, reason |-> reason, key |-> key]
SuccessResult(key) ==
    [success |-> TRUE, skipped |-> FALSE, reason |-> "", key |-> key]

\* the handler's except clause recording the item as skipped
FailureResultAsSkip(error, key) ==
    [success |-> TRUE, skipped |-> TRUE, reason |-> error, key |-> key]

FailureResult(error, key) ==
    [success |-> FALSE, skipped |-> FALSE, reason |-> error, key |-> key]

\* record.get('s3', {}).get('object', {}).get('key', 'unknown')
RecordKeyOrUnknown(r) == IF r.shape = "mapping" THEN r.key ELSE Unknown

-----------------------------------------------------------------------------
(* The current item of invocation i *)

\* the key functions on the keys of the model, evaluated once
EligibleKeys == [p \in Prefixes |-> {k \in InputKeys : is_image_file(p, k)}]
ResizedKeys == [p \in Prefixes |->
                  [k \in InputKeys |-> generate_resized_key(p, k)]]
LockKeyOf == [k \in OutputKeys |-> lock_key_of(k)]

object_key(i) == rec[i].key
resized_key(i) == ResizedKeys[prefix][rec[i].key]
lock_key(i) == LockKeyOf[resized_key(i)]

Call(op, key, res) == [op |-> op, key |-> key, res |-> res]

\* the puts and deletes the item has issued, as <<op, key>>
Writes(l) ==
    {<<l[n].op, l[n].key>> : n \in {m \in 1..Len(l) :
                                      l[m].op \in {"put", "upload", "delete"}}}
\* the calls of the item that raised
Errors(l) == {l[n].op : n \in {m \in 1..Len(l) : l[m].res = "error"}}
\* try_acquire_processing_lock returned True
Acquired(l) == \E n \in 1..Len(l) : l[n].op = "put" /\ l[n].res = "ok"
\* release_processing_lock was called
ReleaseCalled(l) == \E n \in 1..Len(l) : l[n].op = "delete"
\* a call to delete_object succeeded
ReleaseDone(l) == \E n \in 1..Len(l) : l[n].op = "delete" /\ l[n].res = "ok"
\* the calls process_s3_record makes
Calls == {"head", "put", "tags", "download", "codec", "upload", "delete"}
\* the download, the codec and the publish
WorkCalls == {"download", "codec", "upload"}

\* whether a call of kind op goes through: it may fail when the environment
\* lets calls of its kind fail
Outcomes(op) == IF op \in mayfail THEN BOOLEAN ELSE {TRUE}

-----------------------------------------------------------------------------
(* The store calls the code makes *)

\* release_processing_lock that deletes nothing
release_processing_lock_noop(st, rkey, ok) == st

\* release_processing_lock: delete_object on the lock key; an error is
\* printed and swallowed
release_processing_lock(st, rkey, ok) ==
    IF ok THEN [st EXCEPT ![rkey \o S_lock_suffix] = NoObject] ELSE st

\* is_resized_image_completed that takes any tagged-or-not output object
\* for a completed one
tags_completed_any(obj) == TRUE

\* is_resized_image_completed that never reports completion
tags_completed_never(obj) == FALSE

\* is_resized_image_completed, once head_object and get_object_tagging
\* returned: tags.get(PROCESSED_TAG) == 'true'
tags_completed(obj) == obj.processed = "true"

\* the object upload_file writes: Tagging processed=true
uploaded_object(i) == Resized(i, "true")

Bump(n) == IF n < MaxCount THEN n + 1 ELSE n

-----------------------------------------------------------------------------
(* Initial states *)

\* the output and lock key every eligible record of the model derives
OutputKey(p) == generate_resized_key(p, K1)

InitStore(p, out, lk) ==
    [k \in StoreKeys |->
        IF k \in InputKeys THEN Source
        ELSE IF k = OutputKey(p) THEN out
        ELSE IF k = lock_key_of(OutputKey(p)) THEN lk
        ELSE NoObject]

InitIdle ==
    /\ pc = [i \in Invocations |-> "idle"]
    /\ rec = [i \in Invocations |-> NoRecord]
    /\ recs = [i \in Invocations |-> <<>>]
    /\ results = [i \in Invocations |-> <<>>]
    /\ response = [i \in Invocations |-> NoResponse]
    /\ exc = [i \in Invocations |-> ""]
    /\ pre = [i \in Invocations |-> NoPre]
    /\ log = [i \in Invocations |-> <<>>]
    /\ published = [k \in OutputKeys |-> 0]
    /\ faulty = FALSE

InitWith(failing) ==
    /\ mayfail = failing
    /\ prefix \in Prefixes
    /\ \E out \in {NoObject, Resized(0, "true"), Resized(0, "")},
          lk \in {NoObject, LockObject(0)} :
            /\ store = InitStore(prefix, out, lk)
            /\ fresh = (out = NoObject /\ lk = NoObject)
    /\ InitIdle
    /\ kin = <<>>
    /\ kout = NoResult

\* any call may fail
Init == InitWith(Calls)

\* only the download, the codec and the publish may fail
InitAtomic == InitWith(WorkCalls)

-----------------------------------------------------------------------------
(* Steps shared by the actions *)

keys_frame == <<kin, kout>>
item_frame == <<prefix, rec, recs, response, pre, fresh, mayfail>>

ReturnResult(i, r) ==
    /\ results' = [results EXCEPT ![i] = Append(@, r)]
    /\ pc' = [pc EXCEPT ![i] = "loop"]
    /\ exc' = exc

Raise(i, e, to) ==
    /\ exc' = [exc EXCEPT ![i] = e]
    /\ pc' = [pc EXCEPT ![i] = to]
    /\ results' = results

Goto(i, to) ==
    /\ pc' = [pc EXCEPT ![i] = to]
    /\ UNCHANGED <<results, exc>>

Logged(i, op, key, res) ==
    /\ log' = [log EXCEPT ![i] = Append(@, Call(op, key, res))]
    /\ faulty' = (faulty \/ res = "error")

-----------------------------------------------------------------------------
(* lambda_handler *)

\* the host invokes the handler with an event
Invoke(i) ==
    /\ pc[i] = "idle"
    /\ pc' = [pc EXCEPT ![i] = "loop"]
    /\ rec' = [rec EXCEPT ![i] = NoRecord]
    /\ recs' = [recs EXCEPT ![i] = <<>>]
    /\ results' = [results EXCEPT ![i] = <<>>]
    /\ response' = [response EXCEPT ![i] = NoResponse]
    /\ exc' = [exc EXCEPT ![i] = ""]
    /\ pre' = [pre EXCEPT ![i] = NoPre]
    /\ log' = [log EXCEPT ![i] = <<>>]
    /\ UNCHANGED <<prefix, store, published, fresh, mayfail, faulty>>
    /\ UNCHANGED keys_frame

\* the host invokes the handler again once it has returned
Reinvoke(i) ==
    /\ pc[i] = "done"
    /\ pc' = [pc EXCEPT ![i] = "loop"]
    /\ rec' = [rec EXCEPT ![i] = NoRecord]
    /\ recs' = [recs EXCEPT ![i] = <<>>]
    /\ results' = [results EXCEPT ![i] = <<>>]
    /\ response' = [response EXCEPT ![i] = NoResponse]
    /\ exc' = [exc EXCEPT ![i] = ""]
    /\ pre' = [pre EXCEPT ![i] = NoPre]
    /\ log' = [log EXCEPT ![i] = <<>>]
    /\ UNCHANGED <<prefix, store, published, fresh, mayfail, faulty>>
    /\ UNCHANGED keys_frame

\* the for loop takes the next record r of the event and process_s3_record
\* runs up to its first store call
NextRecord(i, r, max) ==
    /\ pc[i] = "loop"
    /\ Len(recs[i]) < max
    /\ rec' = [rec EXCEPT ![i] = r]
    /\ recs' = [recs EXCEPT ![i] = Append(@, r)]
    /\ log' = [log EXCEPT ![i] = <<>>]
    /\ IF r.shape = "notmapping"
       THEN /\ Raise(i, "TypeError", "except")
            /\ pre' = [pre EXCEPT ![i] = NoPre]
       ELSE IF r.shape = "nofields"
       THEN /\ Raise(i, "KeyError", "except")
            /\ pre' = [pre EXCEPT ![i] = NoPre]
       ELSE IF r.key \notin EligibleKeys[prefix]
       THEN /\ ReturnResult(i, SkipResult("Not an image file", r.key))
            /\ pre' = [pre EXCEPT ![i] = NoPre]
       ELSE /\ Goto(i, "acquire_head")
            /\ LET rk == ResizedKeys[prefix][r.key]
               IN  pre' = [pre EXCEPT ![i] =
                             [out |-> store[rk], lock |-> store[LockKeyOf[rk]]]]
    /\ UNCHANGED <<prefix, store, response, published, fresh, mayfail, faulty>>
    /\ UNCHANGED keys_frame

\* the event has no more records: return the report
EndRecords(i) ==
    /\ pc[i] = "loop"
    /\ pc' = [pc EXCEPT ![i] = "done"]
    /\ response' = [response EXCEPT ![i] =
                      [statusCode |-> 200, results |-> results[i]]]
    /\ UNCHANGED <<prefix, store, rec, recs, results, exc, pre, log, published,
                   fresh, mayfail, faulty>>
    /\ UNCHANGED keys_frame

\* the per-record except clause; record.get raises on a record that is not a
\* mapping, which the outer except clause turns into the 500 response
Except(i) ==
    /\ pc[i] = "except"
    /\ IF rec[i].shape = "notmapping"
       THEN /\ pc' = [pc EXCEPT ![i] = "done"]
            /\ response' = [response EXCEPT ![i] =
                              [statusCode |-> 500, results |-> <<>>]]
            /\ UNCHANGED <<results, exc>>
       ELSE /\ ReturnResult(i, FailureResult(exc[i], RecordKeyOrUnknown(rec[i])))
            /\ UNCHANGED response
    /\ UNCHANGED <<prefix, store, rec, recs, pre, log, published, fresh,
                   mayfail, faulty>>
    /\ UNCHANGED keys_frame

-----------------------------------------------------------------------------
(* try_acquire_processing_lock *)

\* process_s3_record going on to the completion re-check although
\* try_acquire_processing_lock returned False
LockDeniedGoesOn(i) == Goto(i, "check_head")

LockDenied(i) ==
    ReturnResult(i, SkipResult("Already being processed or completed",
                               object_key(i)))

\* try_acquire_processing_lock going on to the put whatever head_object
\* found
HeadLockThenPut(i) ==
    /\ pc[i] = "acquire_head"
    /\ \E ok \in Outcomes("head") :
         LET res == IF ~ok THEN "error"
                    ELSE IF store[lock_key(i)] # NoObject THEN "exists"
                    ELSE "absent"
         IN  /\ Logged(i, "head", lock_key(i), res)
             /\ Goto(i, "acquire_put")
    /\ UNCHANGED <<store, published>>
    /\ UNCHANGED item_frame
    /\ UNCHANGED keys_frame

\* head_object on the lock key: the code takes an absent key to raise
\* NoSuchKey and goes on to the put; an existing lock object and any other
\* error make try_acquire_processing_lock return False
HeadLock(i) ==
    /\ pc[i] = "acquire_head"
    /\ \E ok \in Outcomes("head") :
         LET res == IF ~ok THEN "error"
                    ELSE IF store[lock_key(i)] # NoObject THEN "exists"
                    ELSE "absent"
         IN  /\ Logged(i, "head", lock_key(i), res)
             /\ IF res = "absent" THEN Goto(i, "acquire_put") ELSE LockDenied(i)
    /\ UNCHANGED <<store, published>>
    /\ UNCHANGED item_frame
    /\ UNCHANGED keys_frame

\* put_object on the lock key
PutLock(i) ==
    /\ pc[i] = "acquire_put"
    /\ \E ok \in Outcomes("put") :
         /\ Logged(i, "put", lock_key(i), IF ok THEN "ok" ELSE "error")
         /\ IF ok
            THEN /\ store' = [store EXCEPT ![lock_key(i)] = LockObject(i)]
                 /\ Goto(i, "check_head")
            ELSE /\ store' = store
                 /\ LockDenied(i)
    /\ UNCHANGED published
    /\ UNCHANGED item_frame
    /\ UNCHANGED keys_frame

\* head_object and put_object on the lock key as one step: the store decides
\* the existence check and the write together
AcquireAtomic(i) ==
    /\ pc[i] = "acquire_head"
    /\ \E okh \in Outcomes("head"), okp \in Outcomes("put") :
         LET hres == IF ~okh THEN "error"
                     ELSE IF store[lock_key(i)] # NoObject THEN "exists"
                     ELSE "absent"
             pres == IF okp THEN "ok" ELSE "error"
         IN  IF hres # "absent"
             THEN /\ Logged(i, "head", lock_key(i), hres)
                  /\ store' = store
                  /\ LockDenied(i)
             ELSE /\ log' = [log EXCEPT ![i] =
                               @ \o <<Call("head", lock_key(i), hres),
                                      Call("put", lock_key(i), pres)>>]
                  /\ faulty' = (faulty \/ pres = "error")
                  /\ IF okp
                     THEN /\ store' = [store EXCEPT ![lock_key(i)] = LockObject(i)]
                          /\ Goto(i, "check_head")
                     ELSE /\ store' = store
                          /\ LockDenied(i)
    /\ UNCHANGED published
    /\ UNCHANGED item_frame
    /\ UNCHANGED keys_frame

-----------------------------------------------------------------------------
(* is_resized_image_completed *)

\* head_object on the output key
HeadOutput(i) ==
    /\ pc[i] = "check_head"
    /\ \E ok \in Outcomes("head") :
         LET res == IF ~ok THEN "error"
                    ELSE IF store[resized_key(i)] # NoObject THEN "exists"
                    ELSE "absent"
         IN  /\ Logged(i, "head", resized_key(i), res)
             /\ Goto(i, IF res = "exists" THEN "check_tags" ELSE "download")
    /\ UNCHANGED <<store, published>>
    /\ UNCHANGED item_frame
    /\ UNCHANGED keys_frame

\* get_object_tagging on the output key; process_s3_record returns the
\* 'Already completed' skip from inside its try block
GetTags(i) ==
    /\ pc[i] = "check_tags"
    /\ \E ok \in Outcomes("tags") :
         LET obj == store[resized_key(i)]
             res == IF ~ok THEN "error"
                    ELSE IF obj = NoObject THEN "absent"
                    ELSE IF tags_completed(obj) THEN "completed"
                    ELSE "incomplete"
         IN  /\ Logged(i, "tags", resized_key(i), res)
             /\ IF res = "completed"
                THEN ReturnResult(i, SkipResult("Already completed", object_key(i)))
                ELSE Goto(i, "download")
    /\ UNCHANGED <<store, published>>
    /\ UNCHANGED item_frame
    /\ UNCHANGED keys_frame

-----------------------------------------------------------------------------
(* the body of process_s3_record *)

\* s3.download_file of the original
Download(i) ==
    /\ pc[i] = "download"
    /\ \E ok \in Outcomes("download") :
         LET res == IF ok /\ store[object_key(i)] # NoObject THEN "ok" ELSE "error"
         IN  /\ Logged(i, "download", object_key(i), res)
             /\ IF res = "ok"
                THEN Goto(i, "thumbnail")
                ELSE Raise(i, "download", "release_outer")
    /\ UNCHANGED <<store, published>>
    /\ UNCHANGED item_frame
    /\ UNCHANGED keys_frame

\* generate_thumbnail: works on local files only
Thumbnail(i) ==
    /\ pc[i] = "thumbnail"
    /\ \E ok \in Outcomes("codec") :
         /\ Logged(i, "codec", object_key(i), IF ok THEN "ok" ELSE "error")
         /\ IF ok THEN Goto(i, "upload") ELSE Raise(i, "codec", "release_outer")
    /\ UNCHANGED <<store, published>>
    /\ UNCHANGED item_frame
    /\ UNCHANGED keys_frame

\* upload_resized_image_atomically: s3.upload_file, which writes the output
\* object or raises
Upload(i) ==
    /\ pc[i] = "upload"
    /\ \E ok \in Outcomes("upload") :
         /\ Logged(i, "upload", resized_key(i), IF ok THEN "ok" ELSE "error")
         /\ IF ok
            THEN /\ store' = [store EXCEPT ![resized_key(i)] = uploaded_object(i)]
                 /\ published' = [published EXCEPT ![resized_key(i)] = Bump(@)]
                 /\ Goto(i, "release_ok")
            ELSE /\ UNCHANGED <<store, published>>
                 /\ Raise(i, "upload", "release_err")
    /\ UNCHANGED item_frame
    /\ UNCHANGED keys_frame

\* upload_resized_image_atomically: the release after the upload, then
\* process_s3_record returns its success result
ReleaseAfterUpload(i) ==
    /\ pc[i] = "release_ok"
    /\ \E ok \in Outcomes("delete") :
         /\ Logged(i, "delete", lock_key(i), IF ok THEN "ok" ELSE "error")
         /\ store' = release_processing_lock(store, resized_key(i), ok)
    /\ ReturnResult(i, SuccessResult(object_key(i)))
    /\ UNCHANGED published
    /\ UNCHANGED item_frame
    /\ UNCHANGED keys_frame

\* upload_resized_image_atomically: the release in its except clause, which
\* re-raises
ReleaseAfterUploadError(i) ==
    /\ pc[i] = "release_err"
    /\ \E ok \in Outcomes("delete") :
         /\ Logged(i, "delete", lock_key(i), IF ok THEN "ok" ELSE "error")
         /\ store' = release_processing_lock(store, resized_key(i), ok)
    /\ Goto(i, "release_outer")
    /\ UNCHANGED published
    /\ UNCHANGED item_frame
    /\ UNCHANGED keys_frame

\* process_s3_record: the release in its except clause, which re-raises to
\* the handler
ReleaseOnError(i) ==
    /\ pc[i] = "release_outer"
    /\ \E ok \in Outcomes("delete") :
         /\ Logged(i, "delete", lock_key(i), IF ok THEN "ok" ELSE "error")
         /\ store' = release_processing_lock(store, resized_key(i), ok)
    /\ Goto(i, "except")
    /\ UNCHANGED published
    /\ UNCHANGED item_frame
    /\ UNCHANGED keys_frame

-----------------------------------------------------------------------------
(* Specifications *)

Handler(i) ==
    \/ Invoke(i)
    \/ EndRecords(i)
    \/ Except(i)

Body(i) ==
    \/ HeadOutput(i)
    \/ GetTags(i)
    \/ Download(i)
    \/ Thumbnail(i)
    \/ Upload(i)
    \/ ReleaseAfterUpload(i)
    \/ ReleaseAfterUploadError(i)
    \/ ReleaseOnError(i)

\* the code as written: the existence check and the write of the lock are
\* two store calls
Next ==
    \E i \in Invocations :
        \/ \E r \in SameInput : NextRecord(i, r, MaxItems)
        \/ Handler(i)
        \/ HeadLock(i)
        \/ PutLock(i)
        \/ Body(i)

Spec == Init /\ [][Next]_vars

\* the code under the assumption that the store makes the existence check
\* and the write of the lock one step
NextAtomic ==
    \E i \in Invocations :
        \/ \E r \in SameInput : NextRecord(i, r, AtomicItems)
        \/ Handler(i)
        \/ AcquireAtomic(i)
        \/ Body(i)

SpecAtomic == InitAtomic /\ [][NextAtomic]_vars

\* one invocation at a time, each handed any batch of records
NextBatch ==
    \/ \E r \in Records : NextRecord(1, r, MaxRecords)
    \/ Reinvoke(1)
    \/ Handler(1)
    \/ HeadLock(1)
    \/ PutLock(1)
    \/ Body(1)

SpecBatch == Init /\ [][NextBatch]_vars

-----------------------------------------------------------------------------
(* The key functions on their own *)

KeyDirs == {<<>>, S_test_images, S_resized_dir, S_other \o S_resized_dir}
KeyNames == {<<>>, S_test_image, S_test_image \o S_resized_suffix, <<".">>}
KeyExts == {<<>>, S_jpg, S_JPG, S_Jpeg, S_txt, <<".", "p", "n", "g">>,
            S_lock_suffix, S_jpg \o S_lock_suffix, <<".", "J", "P", "G", "x">>}
\* the input keys the key functions are applied to
KeyInputs == {d \o n \o e : d \in KeyDirs, n \in KeyNames, e \in KeyExts}

InitKeys ==
    /\ mayfail = {}
    /\ prefix \in Prefixes
    /\ store = InitStore(prefix, NoObject, NoObject)
    /\ fresh = TRUE
    /\ InitIdle
    /\ kin \in KeyInputs
    /\ kout = NoResult

\* process_s3_record's first lines on the key kin: the eligibility check and
\* the derivation of the output key and of the lock key
DeriveKeys ==
    /\ ~kout.applied
    /\ kout' = [applied |-> TRUE,
                eligible |-> is_image_file(prefix, kin),
                resized |-> generate_resized_key(prefix, kin),
                lock |-> lock_key_of(generate_resized_key(prefix, kin))]
    /\ UNCHANGED <<prefix, store, pc, rec, recs, results, response, exc, pre,
                   log, published, fresh, mayfail, faulty, kin>>

\* the bucket notifies the handler of an object the worker writes for kin,
\* the output object or the lock object: the for loop takes the record and
\* process_s3_record runs up to its first store call
NextDerivedRecord(i) ==
    /\ pc[i] = "loop"
    /\ kout.applied
    /\ \E k \in {kout.resized, kout.lock} :
         /\ \A n \in 1..Len(recs[i]) : recs[i][n].key # k
         /\ rec' = [rec EXCEPT ![i] = MappingRecord(k)]
         /\ recs' = [recs EXCEPT ![i] = Append(@, MappingRecord(k))]
         /\ IF ~is_image_file(prefix, k)
            THEN ReturnResult(i, SkipResult("Not an image file", k))
            ELSE Goto(i, "acquire_head")
    /\ log' = [log EXCEPT ![i] = <<>>]
    /\ pre' = [pre EXCEPT ![i] = NoPre]
    /\ UNCHANGED <<prefix, store, response, published, fresh, mayfail, faulty>>
    /\ UNCHANGED keys_frame

NextKeys ==
    \/ DeriveKeys
    \/ Invoke(1)
    \/ NextDerivedRecord(1)
    \/ EndRecords(1)

SpecKeys == InitKeys /\ [][NextKeys]_vars

-----------------------------------------------------------------------------
(* Properties *)

\* process_s3_record has returned for the current record of invocation i
ItemDone(i) ==
    /\ pc[i] \in {"loop", "done"}
    /\ Len(recs[i]) > 0
    /\ Len(results[i]) = Len(recs[i])

\* the current record of invocation i passed the eligibility check
Eligible(i) == rec[i].shape = "mapping" /\ rec[i].key \in EligibleKeys[prefix]

LastResult(i) == results[i][Len(results[i])]

\* C1: for concurrent or repeated invocations for the same input, under
\* every interleaving of their store calls and even when no call fails, the
\* output object is published at most once.
C1_PublishedAtMostOnce ==
    ~faulty => \A k \in OutputKeys : published[k] <= 1

\* C2: when the existence check and the write of the lock are one atomic
\* step, and only the download, the codec and the publish may fail, only one
\* publish of the output object occurs.
C2_OnePublishUnderAtomicAcquire ==
    \A k \in OutputKeys : published[k] <= 1

\* C3: when the output object carries processed=true and no lock object is
\* present as process_s3_record starts on an eligible record, the run ends in
\* a skip and issues no put and no delete on any key, even when no call
\* fails.
C3_CompletedRunWritesNothing ==
    \A i \in Invocations :
        (/\ ~faulty
         /\ ItemDone(i)
         /\ Eligible(i)
         /\ pre[i].out.processed = "true"
         /\ pre[i].lock = NoObject)
        => /\ LastResult(i).skipped
           /\ Writes(log[i]) = {}

\* C4: every execution of process_s3_record in which
\* try_acquire_processing_lock returned True has called
\* release_processing_lock by the time it returns or raises.
C4_ReleaseOnEveryExit ==
    \A i \in Invocations :
        (pc[i] \in {"loop", "except", "done"} /\ Acquired(log[i]))
        => ReleaseCalled(log[i])

C6_OneOutcomePerRecord ==
    \A i \in Invocations :
        pc[i] = "done" =>
            /\ response[i].statusCode = 200
            /\ Len(response[i].results) = Len(recs[i])
            /\ \A n \in 1..Len(response[i].results) :
                 IF recs[i][n].shape = "mapping"
                 THEN response[i].results[n].key = recs[i][n].key
                 ELSE ~response[i].results[n].success

\* C7: under the shipped configuration, is_image_file rejects the empty key,
\* every key under the output prefix and every key whose extension is
\* outside the allow-list, and accepts every other key whose extension is in
\* the allow-list once lowered, .JPG as .jpg.
C7_EligibilityAsShipped ==
    (kout.applied /\ prefix = RESIZED_PREFIX) =>
        LET ext == Splitext(Lower(kin))[2]
        IN  /\ (kin = <<>> \/ ext \notin SUPPORTED_FORMATS) => ~kout.eligible
            /\ StartsWith(kin, TEST_PREFIX) => ~kout.eligible
            /\ (/\ kin # <<>>
                /\ ~StartsWith(kin, TEST_PREFIX)
                /\ ext \in SUPPORTED_FORMATS) => kout.eligible

\* the output key the test script looks for
TestResizedKey == S_resized_dir \o S_test_image \o S_resized_suffix \o S_jpg

\* C8: after lambda_handler handled the event for test-images/test-image.jpg
\* in a bucket that held neither output nor lock object, with no call
\* failing, an object exists at resized/test-image_resized.jpg.
C8_ResizedObjectExists ==
    \A i \in Invocations :
        (/\ fresh
         /\ ~faulty
         /\ pc[i] = "done"
         /\ recs[i] = <<MappingRecord(K1)>>)
        => store[TestResizedKey] # NoObject

\* C9: in a sequence of invocations that do not overlap, started on a bucket
\* holding neither output nor lock object and with no call failing, the
\* output object is published once, by the first run of process_s3_record for
\* the key; every later run reports a skip and leaves the output object as it
\* was.
C9_DeduplicatesRepeatedDelivery ==
    (fresh /\ ~faulty) =>
        /\ \A k \in OutputKeys : published[k] <= 1
        /\ \A i \in Invocations :
             (ItemDone(i) /\ Eligible(i)) =>
                 /\ published[resized_key(i)] = 1
                 /\ IF pre[i].out = NoObject
                    THEN /\ LastResult(i) = SuccessResult(object_key(i))
                         /\ store[resized_key(i)] = uploaded_object(i)
                    ELSE /\ LastResult(i).success
                         /\ LastResult(i).skipped
                         /\ pre[i].out.processed = "true"
                         /\ store[resized_key(i)] = pre[i].out
                         /\ \A w \in Writes(log[i]) : w[2] # resized_key(i)

\* a later invocation with the same one-record event has reported a skip
C9_Witness ==
    /\ fresh
    /\ ~faulty
    /\ pc[1] = "done"
    /\ recs[1] = <<MappingRecord(K1)>>
    /\ Eligible(1)
    /\ pre[1].out.processed = "true"
    /\ response[1].statusCode = 200
    /\ response[1].results[1].skipped
    /\ published[resized_key(1)] = 1

SupportedExtension(key) == Splitext(Lower(key))[2] \in SUPPORTED_FORMATS

\* C11: key derivation is one-to-one: two distinct input keys with supported
\* image extensions, keys that differ only in their directory part included,
\* derive distinct output keys and distinct lock keys.
C11_KeyDerivationOneToOne ==
    (kout.applied /\ SupportedExtension(kin)) =>
        \A k2 \in KeyInputs :
            (k2 # kin /\ SupportedExtension(k2)) =>
                /\ generate_resized_key(prefix, k2) # kout.resized
                /\ lock_key_of(generate_resized_key(prefix, k2)) # kout.lock

\* C12: no feedback loop: for every input key, neither the output key derived
\* from it nor its lock key passes is_image_file, so a notification for an
\* object the worker wrote is skipped as not an image file, with no store
\* call and the bucket left as it was.
C12_NoFeedbackLoop ==
    kout.applied =>
        /\ ~is_image_file(prefix, kout.resized)
        /\ ~is_image_file(prefix, kout.lock)
        /\ \A i \in Invocations :
             Len(recs[i]) > 0 =>
                 /\ ItemDone(i)
                 /\ rec[i].key \in {kout.resized, kout.lock}
                 /\ LastResult(i) = SkipResult("Not an image file", rec[i].key)
                 /\ log[i] = <<>>
                 /\ store = InitStore(prefix, NoObject, NoObject)

\* the handler has returned from the notifications for the output object and
\* for the lock object of test-images/test-image.jpg under resized/
C12_Witness ==
    /\ kout.applied
    /\ prefix = TEST_PREFIX
    /\ kin = K1
    /\ kout.resized = TestResizedKey
    /\ pc[1] = "done"
    /\ Len(recs[1]) = 2
    /\ response[1].results = <<SkipResult("Not an image file", recs[1][1].key),
                               SkipResult("Not an image file", recs[1][2].key)>>

\* invocation i is inside process_s3_record, past try_acquire_processing_lock
InBody(i) ==
    pc[i] \in {"check_head", "check_tags", "download", "thumbnail", "upload",
               "release_ok", "release_err", "release_outer"}

\* invocation i is between its acquire and its own release, and the lock
\* object in the bucket is the one it wrote
HoldsLock(i) ==
    /\ InBody(i)
    /\ Acquired(log[i])
    /\ ~ReleaseCalled(log[i])
    /\ store[lock_key(i)] = LockObject(i)

\* C13: a lock object is deleted only by the invocation that created it:
\* under every interleaving of concurrent invocations for the same output
\* key, no step of another invocation removes the lock object written by an
\* invocation that is still between its acquire and its own release.
C13_OnlyOwnerDeletesLock ==
    [][\A i \in Invocations :
          (HoldsLock(i) /\ pc'[i] = pc[i]) => store'[lock_key(i)] # NoObject]_vars

\* C14: no permanent lock-out after partial failure: on a bucket that held
\* neither output nor lock object at the start, in every state where all
\* invocations have run to completion, even when store calls including the
\* delete of the lock failed, a lock object is present for an output key only
\* if that output key carries processed=true.
C14_NoLockLeftWithoutOutput ==
    (/\ fresh
     /\ \A i \in Invocations : pc[i] \in {"idle", "done"})
    => \A k \in OutputKeys :
           store[LockKeyOf[k]] # NoObject => store[k].processed = "true"

\* the download_file calls of the item
Downloads(l) == {n \in 1..Len(l) : l[n].op = "download"}

\* the output key and the lock key derived from a key differ from the key
DerivedKeysDiffer ==
    \A p \in Prefixes : \A k \in KeyInputs \cup InputKeys :
        /\ generate_resized_key(p, k) # k
        /\ lock_key_of(generate_resized_key(p, k)) # k

\* C15: process_s3_record never mutates its input object: it issues no put
\* and no delete on the record's own key, the output key and the lock key it
\* writes differ from that key, and it downloads the input at most once.
C15_InputNeverMutated ==
    /\ DerivedKeysDiffer
    /\ \A i \in Invocations :
         rec[i].shape = "mapping" =>
             /\ \A w \in Writes(log[i]) :
                  /\ w[2] # object_key(i)
                  /\ w[2] \in {resized_key(i), lock_key(i)}
             /\ Cardinality(Downloads(log[i])) <= 1
             /\ store[object_key(i)] = Source

\* an item that was downloaded, published and released
C15_Witness ==
    /\ ItemDone(1)
    /\ Eligible(1)
    /\ LastResult(1) = SuccessResult(object_key(1))
    /\ Cardinality(Downloads(log[1])) = 1
    /\ <<"upload", resized_key(1)>> \in Writes(log[1])
    /\ <<"delete", lock_key(1)>> \in Writes(log[1])
    /\ store[object_key(1)] = Source

\* call n of the item is the put_object that made
\* try_acquire_processing_lock return True
IsAcquire(i, n) ==
    /\ log[i][n].op = "put"
    /\ log[i][n].key = lock_key(i)
    /\ log[i][n].res = "ok"

\* call n of the item is the call of is_resized_image_completed that made it
\* return False
IsNotCompleted(i, n) ==
    /\ log[i][n].key = resized_key(i)
    /\ \/ log[i][n].op = "head" /\ log[i][n].res \in {"absent", "error"}
       \/ log[i][n].op = "tags" /\ log[i][n].res \in {"absent", "incomplete", "error"}

\* try_acquire_processing_lock returned False
Denied(l) ==
    \E n \in 1..Len(l) :
        \/ l[n].op = "head" /\ l[n].key \in LockKeys /\ l[n].res \in {"exists", "error"}
        \/ l[n].op = "put" /\ l[n].res = "error"

\* is_resized_image_completed returned True
SawCompleted(l) == \E n \in 1..Len(l) : l[n].op = "tags" /\ l[n].res = "completed"

\* C16: within one run of process_s3_record, upload_file is called only
\* after this run's try_acquire_processing_lock returned True and after a
\* completion re-check made after the acquisition returned False; the
\* delete of the lock on the success path comes only after upload_file
\* returned; and a run that was ineligible, denied the lock or saw the output
\* completed calls upload_file never.
C16_ProtocolOrder ==
    \A i \in Invocations :
        /\ \A u \in 1..Len(log[i]) :
             log[i][u].op = "upload" =>
                 /\ Eligible(i)
                 /\ ~Denied(log[i])
                 /\ ~SawCompleted(log[i])
                 /\ \E a \in 1..(u - 1) :
                      /\ IsAcquire(i, a)
                      /\ \E c \in (a + 1)..(u - 1) : IsNotCompleted(i, c)
        /\ (ItemDone(i) /\ LastResult(i).skipped) =>
               \A n \in 1..Len(log[i]) : log[i][n].op # "upload"
        /\ (pc[i] = "release_ok"
            \/ (ItemDone(i) /\ LastResult(i) = SuccessResult(rec[i].key))) =>
               \E u \in 1..Len(log[i]) :
                   /\ log[i][u].op = "upload"
                   /\ log[i][u].res = "ok"
                   /\ \A d \in 1..Len(log[i]) : log[i][d].op = "delete" => d > u

\* a run that acquired the lock, found the output absent, published and
\* then deleted the lock
C16_Witness ==
    /\ ItemDone(1)
    /\ Eligible(1)
    /\ LastResult(1) = SuccessResult(object_key(1))
    /\ Len(log[1]) = 7
    /\ IsAcquire(1, 2)
    /\ IsNotCompleted(1, 3)
    /\ log[1][6] = Call("upload", resized_key(1), "ok")
    /\ log[1][7].op = "delete"

\* C17: lock denial leaves the store unchanged: whenever the lock object for
\* the derived output key exists when try_acquire_processing_lock checks for
\* it, whether head_object finds it or fails, the call returns False,
\* process_s3_record returns the skip outcome with success=True, and the run
\* issues no put, no upload and no delete on any key.
C17_DeniedRunWritesNothing ==
    \A i \in Invocations :
        (/\ Len(log[i]) > 0
         /\ log[i][1].op = "head"
         /\ log[i][1].key = lock_key(i)
         /\ log[i][1].res \in {"exists", "error"})
        => /\ ItemDone(i)
           /\ LastResult(i) = SkipResult("Already being processed or completed",
                                         object_key(i))
           /\ LastResult(i).success
           /\ log[i] = <<log[i][1]>>
           /\ Writes(log[i]) = {}

\* invocation 2 was denied the lock that invocation 1 holds
C17_Witness ==
    /\ HoldsLock(1)
    /\ ItemDone(2)
    /\ log[2] = <<Call("head", lock_key(2), "exists")>>
    /\ LastResult(2).skipped
    /\ store[lock_key(2)] = LockObject(1)

\* the result of the last call of the item of invocation i, after the step
LastCall(i) == log[i][Len(log[i])]

\* C18: is_resized_image_completed never raises and never writes: it returns
\* True exactly when head_object and get_object_tagging went through and
\* the output object exists with its tag 'processed' equal to 'true'; it
\* returns False when the object is absent, when the tag is missing or has
\* another value, and when either call fails, and then the invocation, which
\* holds the lock, goes on to the download, the codec and the publish.
C18_CompletionCheckFailsOpen ==
    [][\A i \in Invocations :
          (pc[i] \in {"check_head", "check_tags"} /\ pc'[i] # pc[i]) =>
              LET obj == store[resized_key(i)]
                  failed == LastCall(i)'.res = "error"
                  returnedTrue ==
                      /\ pc'[i] = "loop"
                      /\ results'[i] =
                             Append(results[i],
                                    SkipResult("Already completed", object_key(i)))
                  returnedFalse ==
                      /\ pc'[i] = "download"
                      /\ results'[i] = results[i]
              IN  /\ store' = store
                  /\ published' = published
                  /\ exc'[i] = exc[i]
                  /\ Acquired(log[i])
                  /\ pc[i] = "check_head" =>
                         IF ~failed /\ obj # NoObject
                         THEN pc'[i] = "check_tags" /\ results'[i] = results[i]
                         ELSE returnedFalse
                  /\ pc[i] = "check_tags" =>
                         IF ~failed /\ obj # NoObject /\ obj.processed = "true"
                         THEN returnedTrue
                         ELSE returnedFalse]_vars

\* the tag read failed on a completed output object, and the invocation went
\* on to publish
C18_Witness ==
    /\ ItemDone(1)
    /\ Eligible(1)
    /\ pre[1].out.processed = "true"
    /\ Len(log[1]) = 8
    /\ log[1][3] = Call("head", resized_key(1), "exists")
    /\ log[1][4] = Call("tags", resized_key(1), "error")
    /\ log[1][5].op = "download"
    /\ log[1][7] = Call("upload", resized_key(1), "ok")
    /\ LastResult(1) = SuccessResult(object_key(1))

=============================================================================
